---- MODULE Spec2Model ----
(***************************************************************************)
(* keia-api: the three assessment endpoints (writing, speaking, placement) *)
(* as concurrent serverless invocations over one user's Firestore record.  *)
(*                                                                         *)
(* Every await of a handler is a step boundary: an action is the           *)
(* resolution of the awaited call together with the synchronous            *)
(* continuation that runs up to the next await.  The Firestore get is      *)
(* split in two (the read served by the store, then the continuation that  *)
(* reads the clock), since the calendar day may change in between.         *)
(*                                                                         *)
(* Calendar dates are day numbers; confidences are percentages (76 stands  *)
(* for 0.76); sub-scores are integers 0..100.                              *)
(***************************************************************************)
EXTENDS Integers, Sequences, FiniteSets, TLC

(* ------------------------------ bounds --------------------------------- *)

\* the clock runs over the days 0..MaxDay
MaxDay == 2

\* the concurrent invocations, each serving one request
Reqs == {1, 2}

\* a record the pipeline wrote holds a streak of 1..MaxStreak
MaxStreak == 2

\* gradeMCQs on its own is given up to MaxQuestions questions and up to
\* MaxAnswers answers
MaxQuestions == 3
MaxAnswers == 2

(* --------------------------- program constants ------------------------- *)

\* a field that is absent from a document (JavaScript undefined)
Undefined == -1

StarterAt == 3
BronzeAt == 7
SilverAt == 14
GoldAt == 30

\* a writing sample qualifies when its trimmed length is at least this
MinWritingLen == 20

\* sub-scores run from 0 to this
MaxScore == 100

(* ------------------------------- dates --------------------------------- *)

\* The value of lastAssessmentDateISO: absent, a canonical "YYYY-MM-DD"
\* string ("date"), another string Date can parse, such as a full timestamp
\* of that UTC day ("stamp"), or a string Date cannot parse ("invalid").
NoDate == [kind |-> "absent", day |-> 0]
BadDate == [kind |-> "invalid", day |-> 0]
ISO(d) == [kind |-> "date", day |-> d]
Stamp(d) == [kind |-> "stamp", day |-> d]

\* new Date(x).toISOString() throws a RangeError on an invalid date
DateThrows(x) == x.kind = "invalid"

\* new Date(x).toISOString().slice(0,10), for a value Date can parse
toISODay(x) == ISO(x.day)

\* Math.round((new Date(a) - new Date(b)) / 86400000), a and b canonical
diffDaysOf(a, b) == a.day - b.day

\* prevStreak || dflt
OrElse(v, dflt) == IF v = Undefined \/ v = 0 THEN dflt ELSE v

(* --------------------------- streak engines ---------------------------- *)

\* computeNewStreak with the next-day branch forgetting to add one
computeNewStreak_noIncrement(prevISO, prevStreak, now) ==
  LET ps == IF prevStreak = Undefined THEN 0 ELSE prevStreak
      todayISO == ISO(now)
  IN  IF prevISO.kind = "absent" THEN [streak |-> 1, todayISO |-> todayISO, updated |-> TRUE]
      ELSE IF DateThrows(prevISO) THEN [streak |-> 1, todayISO |-> todayISO, updated |-> TRUE]
      ELSE LET diffDays == diffDaysOf(todayISO, toISODay(prevISO))
           IN  IF diffDays = 0 THEN [streak |-> OrElse(ps, 1), todayISO |-> todayISO, updated |-> FALSE]
               ELSE IF diffDays = 1 THEN [streak |-> OrElse(ps, 1), todayISO |-> todayISO, updated |-> TRUE]
               ELSE [streak |-> 1, todayISO |-> todayISO, updated |-> TRUE]

\* computeNewStreak adding one on the same day too
computeNewStreak_sameDayIncrements(prevISO, prevStreak, now) ==
  LET ps == IF prevStreak = Undefined THEN 0 ELSE prevStreak
      todayISO == ISO(now)
  IN  IF prevISO.kind = "absent" THEN [streak |-> 1, todayISO |-> todayISO, updated |-> TRUE]
      ELSE IF DateThrows(prevISO) THEN [streak |-> 1, todayISO |-> todayISO, updated |-> TRUE]
      ELSE LET diffDays == diffDaysOf(todayISO, toISODay(prevISO))
           IN  IF diffDays \in {0, 1}
               THEN [streak |-> OrElse(ps, 0) + 1, todayISO |-> todayISO, updated |-> TRUE]
               ELSE [streak |-> 1, todayISO |-> todayISO, updated |-> TRUE]

\* writing: computeNewStreak(prevISO, prevStreak = 0), with the clock's day
computeNewStreak(prevISO, prevStreak, now) ==
  LET ps == IF prevStreak = Undefined THEN 0 ELSE prevStreak
      todayISO == ISO(now)
  IN  IF prevISO.kind = "absent" THEN [streak |-> 1, todayISO |-> todayISO, updated |-> TRUE]
      ELSE IF DateThrows(prevISO) THEN [streak |-> 1, todayISO |-> todayISO, updated |-> TRUE]
      ELSE LET diffDays == diffDaysOf(todayISO, toISODay(prevISO))
           IN  IF diffDays = 0 THEN [streak |-> OrElse(ps, 1), todayISO |-> todayISO, updated |-> FALSE]
               ELSE IF diffDays = 1 THEN [streak |-> OrElse(ps, 0) + 1, todayISO |-> todayISO, updated |-> TRUE]
               ELSE [streak |-> 1, todayISO |-> todayISO, updated |-> TRUE]

\* speakingNewStreak taking a stored date later than today for today
\* (diffDays <= 0 in place of diffDays === 0)
speakingNewStreak_futureIsToday(prevISO, prevStreak, now) ==
  LET ps == IF prevStreak = Undefined THEN 0 ELSE prevStreak
      todayISO == ISO(now)
  IN  IF prevISO.kind = "absent" THEN [streak |-> 1, todayISO |-> todayISO]
      ELSE IF DateThrows(prevISO) THEN [streak |-> 1, todayISO |-> todayISO]
      ELSE LET diffDays == diffDaysOf(todayISO, toISODay(prevISO))
           IN  IF diffDays <= 0 THEN [streak |-> OrElse(ps, 1), todayISO |-> todayISO]
               ELSE IF diffDays = 1 THEN [streak |-> OrElse(ps, 0) + 1, todayISO |-> todayISO]
               ELSE [streak |-> 1, todayISO |-> todayISO]

\* speaking: the handler's inline copy of computeNewStreak
speakingNewStreak(prevISO, prevStreak, now) ==
  LET ps == IF prevStreak = Undefined THEN 0 ELSE prevStreak
      todayISO == ISO(now)
  IN  IF prevISO.kind = "absent" THEN [streak |-> 1, todayISO |-> todayISO]
      ELSE IF DateThrows(prevISO) THEN [streak |-> 1, todayISO |-> todayISO]
      ELSE LET diffDays == diffDaysOf(todayISO, toISODay(prevISO))
           IN  IF diffDays = 0 THEN [streak |-> OrElse(ps, 1), todayISO |-> todayISO]
               ELSE IF diffDays = 1 THEN [streak |-> OrElse(ps, 0) + 1, todayISO |-> todayISO]
               ELSE [streak |-> 1, todayISO |-> todayISO]

\* placementStreak leaving the streak of a user without a record as it is
placementStreak_noRecordKeeps(prevISO, prevStreak, now) ==
  LET todayISO == ISO(now)
      streak == OrElse(prevStreak, 0)
  IN  IF prevISO = todayISO THEN [streak |-> streak, todayISO |-> todayISO, throws |-> FALSE]
      ELSE IF prevISO.kind # "absent"
           THEN IF DateThrows(prevISO)
                THEN [streak |-> streak, todayISO |-> todayISO, throws |-> TRUE]
                ELSE LET diff == diffDaysOf(todayISO, toISODay(prevISO))
                     IN  IF diff = 1
                         THEN [streak |-> OrElse(streak, 0) + 1, todayISO |-> todayISO, throws |-> FALSE]
                         ELSE [streak |-> 1, todayISO |-> todayISO, throws |-> FALSE]
           ELSE [streak |-> streak, todayISO |-> todayISO, throws |-> FALSE]

\* placement: the handler's own streak update; throws when the stored date
\* is a string Date cannot parse (the RangeError reaches the outer catch)
placementStreak(prevISO, prevStreak, now) ==
  LET todayISO == ISO(now)
      streak == OrElse(prevStreak, 0)
  IN  IF prevISO = todayISO THEN [streak |-> streak, todayISO |-> todayISO, throws |-> FALSE]
      ELSE IF prevISO.kind # "absent"
           THEN IF DateThrows(prevISO)
                THEN [streak |-> streak, todayISO |-> todayISO, throws |-> TRUE]
                ELSE LET diff == diffDaysOf(todayISO, toISODay(prevISO))
                     IN  IF diff = 1
                         THEN [streak |-> OrElse(streak, 0) + 1, todayISO |-> todayISO, throws |-> FALSE]
                         ELSE [streak |-> 1, todayISO |-> todayISO, throws |-> FALSE]
           ELSE [streak |-> 1, todayISO |-> todayISO, throws |-> FALSE]

(* ------------------------------- badges -------------------------------- *)

includes(list, b) == \E i \in 1..Len(list) : list[i] = b

\* pushOnce without the includes test
pushOnce_always(list, cond, b) == IF cond THEN Append(list, b) ELSE list

\* if (cond && !currentAvatars.includes(b)) currentAvatars.push(b)
pushOnce(list, cond, b) == IF cond /\ ~includes(list, b) THEN Append(list, b) ELSE list

\* the four threshold lines of the placement handler, in order
badgesFor(currentAvatars, streak) ==
  pushOnce(pushOnce(pushOnce(pushOnce(currentAvatars,
    streak >= StarterAt, "starter"),
    streak >= BronzeAt, "bronze"),
    streak >= SilverAt, "silver"),
    streak >= GoldAt, "gold")

(* ------------------------- response normalizer ------------------------- *)

\* The model's text is a sequence of tokens: "{" and "}", the fence markers
\* "fence-json" and "fence", a member of the JSON object asked for ("lvl" stands
\* for "level":"B1", "conf" for "confidence":0.76, "scores" for the scores
\* object with its three sub-scores), "null" (the JSON literal), and "txt"
\* (prose that is not JSON).
Members == {"lvl", "conf", "scores"}

\* what those members hold in the replies the model is taken to give
ModelReply ==
  [level |-> "B1", confidence |-> 76,
   scores |-> [vocab |-> 72, grammar |-> 68, cohesion |-> 70]]
NoScores == [vocab |-> Undefined, grammar |-> Undefined, cohesion |-> Undefined]

\* raw.replace(/fence-json/gi, "").replace(/fence/g, "").trim(), the fences
\* being the triple-backtick markers
RECURSIVE stripFences(_)
stripFences(s) ==
  IF s = <<>> THEN <<>>
  ELSE IF Head(s) \in {"fence-json", "fence"} THEN stripFences(Tail(s))
  ELSE <<Head(s)>> \o stripFences(Tail(s))

\* whether JSON.parse accepts the text: one object, or the literal null
isJSON(s) ==
  \/ s = <<"null">>
  \/ /\ Len(s) >= 2
     /\ s[1] = "{"
     /\ s[Len(s)] = "}"
     /\ \A i \in 2..(Len(s) - 1) : s[i] \in Members

\* the value JSON.parse returns for a text it accepts
jsonValue(s) ==
  IF s = <<"null">>
  THEN [kind |-> "null", level |-> "none", confidence |-> Undefined, scores |-> NoScores]
  ELSE [kind |-> "object",
        level |-> IF includes(s, "lvl") THEN ModelReply.level ELSE "none",
        confidence |-> IF includes(s, "conf") THEN ModelReply.confidence ELSE Undefined,
        scores |-> IF includes(s, "scores") THEN ModelReply.scores ELSE NoScores]

\* the object { raw } the writing and speaking paths fall back to
rawValue == [kind |-> "raw", level |-> "none", confidence |-> Undefined, scores |-> NoScores]

Opens(s) == {i \in 1..Len(s) : s[i] = "{"}
Closes(s) == {i \in 1..Len(s) : s[i] = "}"}
Least(S) == CHOOSE i \in S : \A j \in S : i <= j
Greatest(S) == CHOOSE i \in S : \A j \in S : j <= i

\* raw.match(/\{[\s\S]*\}/): greedy, from the first "{" to the last "}"
hasSpan(s) == \E i \in Opens(s) : \E j \in Closes(s) : i < j
spanOf(s) == SubSeq(s, Least(Opens(s)), Greatest(Closes(s)))

\* apiJson?.candidates?.[0]?.content || apiJson?.content || JSON.stringify(apiJson)
\* (content <<>> is a response that carries no content: the envelope itself
\* is stringified, and parses as an object without the fields asked for)
rawOf(content) == IF content = <<>> THEN <<"{", "}">> ELSE content

\* writing (lines 68-77) and speaking's callGemini (lines 82-87):
\* parse, else parse the span, else wrap the raw text; the span's parse
\* is outside any try, so its SyntaxError leaves the function
normalizeLoose(content) ==
  LET raw == stripFences(rawOf(content))
  IN  IF isJSON(raw) THEN [throws |-> FALSE, via |-> "direct", value |-> jsonValue(raw)]
      ELSE IF hasSpan(raw)
           THEN IF isJSON(spanOf(raw))
                THEN [throws |-> FALSE, via |-> "span", value |-> jsonValue(spanOf(raw))]
                ELSE [throws |-> TRUE, via |-> "span", value |-> rawValue]
           ELSE [throws |-> FALSE, via |-> "raw", value |-> rawValue]

\* placement's callGeminiEvaluate (lines 60-70): no span is an error too
normalizeStrict(content) ==
  LET raw == stripFences(rawOf(content))
  IN  IF isJSON(raw) THEN [throws |-> FALSE, via |-> "direct", value |-> jsonValue(raw)]
      ELSE IF hasSpan(raw)
           THEN IF isJSON(spanOf(raw))
                THEN [throws |-> FALSE, via |-> "span", value |-> jsonValue(spanOf(raw))]
                ELSE [throws |-> TRUE, via |-> "span", value |-> rawValue]
           ELSE [throws |-> TRUE, via |-> "raw", value |-> rawValue]

\* the texts a model call may answer with; <<>> is a reply without content
ModelTexts ==
  { <<>>,
    <<"{", "lvl", "conf", "scores", "}">>,
    <<"fence-json", "{", "lvl", "conf", "scores", "}", "fence">>,
    <<"txt", "{", "lvl", "conf", "scores", "}", "txt">>,
    <<"txt", "{", "txt", "}">>,
    <<"}", "txt", "{">>,
    <<"txt">>,
    <<"null">> }

(* ----------------------------- level mapper ---------------------------- *)

\* Number(x || 0)
numOr0(x) == IF x = Undefined THEN 0 ELSE x

\* The arithmetic is JavaScript's, on IEEE 754 doubles.  A double x is kept
\* as [tenths, dev], standing for x = tenths/10 + dev * 2^-55 / 5: the
\* decimal value the exact arithmetic would give, and how far the double
\* is from it.  The constants 0.4 and 0.2 are the doubles 0.4 * (1 + 2^-54)
\* and 0.2 * (1 + 2^-54).
dbl(tenths, dev) == [tenths |-> tenths, dev |-> dev]

\* 2^n modulo 5
pow2mod5(n) == (2 ^ (n % 4)) % 5

\* floor(log2(n)), n >= 1
RECURSIVE log2(_)
log2(n) == IF n < 2 THEN 0 ELSE 1 + log2(n \div 2)

\* the binary exponent of a positive value, plus 4: 2^(e-4) <= x < 2^(e-3)
binadeOf(tenths, dev) ==
  LET e == log2((16 * tenths) \div 10)
  IN  IF 16 * tenths = 10 * 2^e /\ dev < 0 THEN e - 1 ELSE e

\* the double nearest to an exact result (round to nearest, ties to even):
\* the doubles of the value's binade are 2^j * 2^-55 apart, r is how far
\* (in fifths of 2^-55) the value is above the double below it
roundToDouble(tenths, dev) ==
  IF tenths = 0 THEN dbl(0, 0)
  ELSE LET j == binadeOf(tenths, dev) - 1
           G == 5 * 2^j
           r == (2^j * (((tenths % 5) * pow2mod5(54 - j)) % 5) + dev) % G
           below == dev - r
           above == dev + G - r
           belowIsEven ==
             (2^(j + 1) * (((tenths % 5) * pow2mod5(53 - j)) % 5) + below) % (2 * G) = 0
       IN  IF 2 * r < G THEN dbl(tenths, below)
           ELSE IF 2 * r > G THEN dbl(tenths, above)
           ELSE IF belowIsEven THEN dbl(tenths, below)
           ELSE dbl(tenths, above)

\* 0.4 * x and 0.2 * x, for an integer x
times04(x) == roundToDouble(4 * x, 4 * x)
times02(x) == roundToDouble(2 * x, 2 * x)

\* a + b
plus(a, b) == roundToDouble(a.tenths + b.tenths, a.dev + b.dev)

\* overall = 0.4*vocab + 0.4*grammar + 0.2*cohesion, evaluated left to right
overallOf(scores) ==
  plus(plus(times04(numOr0(scores.vocab)), times04(numOr0(scores.grammar))),
       times02(numOr0(scores.cohesion)))

\* the decimal value of overall, in tenths (overallOf(scores).tenths)
overall10(scores) ==
  4 * numOr0(scores.vocab) + 4 * numOr0(scores.grammar) + 2 * numOr0(scores.cohesion)

\* overall <= n, for an integer n: decided by the decimal value, and by
\* the double's distance from it when the decimal value is n itself
atMost(scores, n) ==
  \/ overall10(scores) < 10 * n
  \/ overall10(scores) = 10 * n /\ overallOf(scores).dev <= 0

\* mapScoresToLevel with the labels of two bands exchanged
mapScoresToLevel_swapped(scores) ==
  IF atMost(scores, 20) THEN "A1"
  ELSE IF atMost(scores, 35) THEN "A2"
  ELSE IF atMost(scores, 55) THEN "B2"
  ELSE IF atMost(scores, 75) THEN "B1"
  ELSE IF atMost(scores, 90) THEN "C1"
  ELSE "C2"

mapScoresToLevel(scores) ==
  IF atMost(scores, 20) THEN "A1"
  ELSE IF atMost(scores, 35) THEN "A2"
  ELSE IF atMost(scores, 55) THEN "B1"
  ELSE IF atMost(scores, 75) THEN "B2"
  ELSE IF atMost(scores, 90) THEN "C1"
  ELSE "C2"

(* ------------------------- multiple-choice grading --------------------- *)

\* the server-held question list of the placement handler
QUESTIONS ==
  << [id |-> "q1", type |-> "mcq", answer |-> "went"],
     [id |-> "q2", type |-> "mcq", answer |-> "study"],
     [id |-> "q3", type |-> "mcq", answer |-> "In a restaurant"],
     [id |-> "q4", type |-> "mcq", answer |-> "He doesn't like pizza"],
     [id |-> "q5", type |-> "mcq", answer |-> "Verb is incorrect"],
     [id |-> "q6", type |-> "writing", answer |-> "null"],
     [id |-> "q7", type |-> "mcq", answer |-> "had arrived"],
     [id |-> "q8", type |-> "mcq", answer |-> "The project will be finished next week"],
     [id |-> "q9", type |-> "mcq", answer |-> "should have"],
     [id |-> "q10", type |-> "mcq", answer |-> "He said he was busy"],
     [id |-> "q11", type |-> "mcq", answer |-> "turn off" ] >>

\* answersByIndex[idx]?.selected
selectedAt(answers, idx) == IF idx <= Len(answers) THEN answers[idx].selected ELSE "undefined"

\* gradeMCQs leaving the questions without a selection out of the total
gradeMCQs_skipsUnanswered(questions, answers) ==
  LET mcq == {i \in 1..Len(questions) : questions[i].type = "mcq"}
      right == {i \in mcq : selectedAt(answers, i) # "undefined"
                            /\ selectedAt(answers, i) = questions[i].answer}
      answered == {i \in mcq : selectedAt(answers, i) # "undefined"}
  IN  [correct |-> Cardinality(right), total |-> Cardinality(answered)]

gradeMCQs(questions, answers) ==
  LET mcq == {i \in 1..Len(questions) : questions[i].type = "mcq"}
      right == {i \in mcq : selectedAt(answers, i) # "undefined"
                            /\ selectedAt(answers, i) = questions[i].answer}
  IN  [correct |-> Cardinality(right), total |-> Cardinality(mcq)]

max1(n) == IF n > 1 THEN n ELSE 1

\* Math.round((grading.correct / Math.max(grading.total,1)) * 100)
\* (for every total below 40 the double quotient times 100 rounds as the
\* exact value does)
mcqPercentOf(grading) ==
  (200 * grading.correct + max1(grading.total)) \div (2 * max1(grading.total))

\* answers.find(a => a.type === "writing" && a.writingSample
\*                   && a.writingSample.trim().length >= 20)
hasWritingEntry(answers) ==
  \E i \in 1..Len(answers) :
    answers[i].type = "writing" /\ answers[i].sampleLen >= MinWritingLen

\* an answer list: the keys of the first n questions are selected (the
\* one at position miss, if any, wrongly), with a writing sample of
\* trimmed length sampleLen at the writing question
answersOf(n, miss, sampleLen) ==
  [i \in 1..n |->
    [type |-> QUESTIONS[i].type,
     selected |-> IF QUESTIONS[i].type # "mcq" THEN "undefined"
                  ELSE IF i = miss THEN "wrong" ELSE QUESTIONS[i].answer,
     sampleLen |-> IF QUESTIONS[i].type = "writing" THEN sampleLen ELSE 0]]

\* the answer lists a placement request is received with
PlacementAnswers == { answersOf(5, 2, 0), answersOf(11, 0, 25) }

\* placementResult with confidence 0 when the model supplies none
placementResult_zeroConfidence(mcqPercent, geminiParsed) ==
  LET pick(x) == IF x = Undefined THEN mcqPercent ELSE x
      scores == [vocab |-> pick(geminiParsed.scores.vocab),
                 grammar |-> pick(geminiParsed.scores.grammar),
                 cohesion |-> pick(geminiParsed.scores.cohesion)]
  IN  [level |-> mapScoresToLevel(scores),
       confidence |-> IF geminiParsed.confidence = Undefined THEN 0
                      ELSE geminiParsed.confidence,
       scores |-> scores]

\* scores, level and confidence of the placement result (lines 127-140);
\* geminiParsed is the parsed object, or the null value when the model
\* call failed or was not made
placementResult(mcqPercent, geminiParsed) ==
  LET pick(x) == IF x = Undefined THEN mcqPercent ELSE x
      scores == [vocab |-> pick(geminiParsed.scores.vocab),
                 grammar |-> pick(geminiParsed.scores.grammar),
                 cohesion |-> pick(geminiParsed.scores.cohesion)]
  IN  [level |-> mapScoresToLevel(scores),
       confidence |-> pick(geminiParsed.confidence),
       scores |-> scores]

(* -------------------------------- state -------------------------------- *)

VARIABLES
  user,     \* the document users/{uid}
  history,  \* the subcollection users/{uid}/assessments: entries per type
  today,    \* the calendar day the clock shows
  req,      \* the invocations: position in the handler and its locals
  probe     \* a call of a helper on its own: its arguments and its result

vars == <<user, history, today, req, probe>>

Kinds == {"writing", "speaking", "placement"}

\* a user that has no document (userSnap.exists is false, userData is {})
NoUser ==
  [exists |-> FALSE, level |-> "none", confidence |-> Undefined,
   date |-> NoDate, streak |-> Undefined, avatars |-> <<>>]

NoSnap == [date |-> NoDate, streak |-> Undefined, avatars |-> <<>>]
NoOut == [streak |-> Undefined, todayISO |-> NoDate, avatars |-> <<>>]

\* no helper is called on its own while the handlers run
NoCall == [fn |-> "none"]

\* an invocation that has received no request.  method is the request's
\* method and fields whether its required fields are there ("present",
\* "missing", or "unreadable" when the form cannot be parsed), as far as
\* the handler has looked at them; upload and job are the
\* values of uploadUrl and transcriptId, status the status the last poll
\* observed, parsed the kind of value the normalizer returned, level and
\* confidence the result's (as the set writes them), scores the result's
\* sub-scores, snap the userData read, out the streak, date and avatars
\* computed for the set, ev the steps the request has taken
IdleReq ==
  [kind |-> "none", pc |-> "idle", method |-> "none", fields |-> "none",
   hasUid |-> FALSE, resp |-> 0, err |-> "none",
   upload |-> "none", job |-> "none", status |-> "none",
   parsed |-> "none", level |-> "none", confidence |-> Undefined,
   scores |-> NoScores, mcqPercent |-> Undefined, snap |-> NoSnap, out |-> NoOut, ev |-> {}]

\* res.status(code).json(...): the request has ended and its locals are gone
respond(r, code, err) ==
  [IdleReq EXCEPT !.kind = r.kind, !.method = r.method, !.fields = r.fields,
                  !.pc = "done", !.resp = code, !.err = err]

\* res.status(200).json({ ok: true, result }): the response carries the
\* result; the steps the request took to it are kept
respondResult(r) ==
  [respond(r, 200, "none") EXCEPT !.parsed = r.parsed, !.level = r.level,
                                  !.confidence = r.confidence, !.scores = r.scores,
                                  !.ev = r.ev]

\* a set that leaves the level of a document that already has one
setProgress_keepLevel(u, r) ==
  [u EXCEPT !.exists = TRUE,
            !.level = IF u.level = "none" THEN r.level ELSE u.level,
            !.confidence = r.confidence,
            !.date = r.out.todayISO, !.streak = r.out.streak]

\* userRef.set({level, levelConfidence, lastAssessmentAt,
\*              lastAssessmentDateISO, streak}, {merge: true})
setProgress(u, r) ==
  [u EXCEPT !.exists = TRUE, !.level = r.level, !.confidence = r.confidence,
            !.date = r.out.todayISO, !.streak = r.out.streak]

\* placement: the same, with avatars: currentAvatars
setProgressAvatars(u, r) ==
  [u EXCEPT !.exists = TRUE, !.level = r.level, !.confidence = r.confidence,
            !.date = r.out.todayISO, !.streak = r.out.streak,
            !.avatars = r.out.avatars]

(* ------------------------------- receive ------------------------------- *)

\* each invocation serves one request; invocations start in order
Free(p) == req[p].pc = "idle" /\ \A q \in Reqs : q < p => req[q].pc # "idle"

\* WritingReceive going on to the fetch without a uid
WritingReceive_uidUnchecked(p) ==
  /\ Free(p)
  /\ \E method \in {"POST", "GET"}, hasText \in BOOLEAN, hasUid \in BOOLEAN :
       LET r == [IdleReq EXCEPT !.kind = "writing", !.method = method,
                                !.fields = IF method # "POST" THEN "none"
                                           ELSE IF hasText /\ hasUid THEN "present"
                                           ELSE "missing"]
       IN  req' = [req EXCEPT ![p] =
             IF method # "POST" THEN respond(r, 405, "Method not allowed")
             ELSE IF ~hasText THEN respond(r, 400, "textSample & uid required")
             ELSE [r EXCEPT !.pc = "awaitModel", !.ev = {"model"}]]
  /\ UNCHANGED <<user, history, today, probe>>

\* writing handler, lines 25-58: method, required fields, then the fetch
WritingReceive(p) ==
  /\ Free(p)
  /\ \E method \in {"POST", "GET"}, hasText \in BOOLEAN, hasUid \in BOOLEAN :
       LET r == [IdleReq EXCEPT !.kind = "writing", !.method = method,
                                !.fields = IF method # "POST" THEN "none"
                                           ELSE IF hasText /\ hasUid THEN "present"
                                           ELSE "missing"]
       IN  req' = [req EXCEPT ![p] =
             IF method # "POST" THEN respond(r, 405, "Method not allowed")
             ELSE IF ~hasText \/ ~hasUid THEN respond(r, 400, "textSample & uid required")
             ELSE [r EXCEPT !.pc = "awaitModel", !.ev = {"model"}]]
  /\ UNCHANGED <<user, history, today, probe>>

\* speaking handler, lines 92-100: method, parseForm, the file, then the upload
SpeakingReceive(p) ==
  /\ Free(p)
  /\ \E method \in {"POST", "GET"}, formOk \in BOOLEAN, hasFile \in BOOLEAN, hasUid \in BOOLEAN :
       LET r == [IdleReq EXCEPT !.kind = "speaking", !.method = method,
                                !.fields = IF method # "POST" THEN "none"
                                           ELSE IF ~formOk THEN "unreadable"
                                           ELSE IF hasFile THEN "present"
                                           ELSE "missing"]
       IN  req' = [req EXCEPT ![p] =
             IF method # "POST" THEN respond(r, 405, "Method not allowed")
             ELSE IF ~formOk THEN respond(r, 500, "rejected")
             ELSE IF ~hasFile THEN respond(r, 400, "file required")
             ELSE [r EXCEPT !.pc = "awaitUpload", !.hasUid = hasUid, !.ev = {"upload"}]]
  /\ UNCHANGED <<user, history, today, probe>>

\* placement handler, lines 91-146 when no writing sample qualifies:
\* method, the answers array, grading, the result, then the get
PlacementReceive(p) ==
  /\ Free(p)
  /\ \E method \in {"POST", "GET"}, hasAnswers \in BOOLEAN, hasUid \in BOOLEAN,
        answers \in PlacementAnswers :
       LET r == [IdleReq EXCEPT !.kind = "placement", !.method = method,
                                !.fields = IF method # "POST" THEN "none"
                                           ELSE IF hasAnswers THEN "present"
                                           ELSE "missing"]
           mcqPercent == mcqPercentOf(gradeMCQs(QUESTIONS, answers))
           res == placementResult(mcqPercent, jsonValue(<<"null">>))
           graded == [r EXCEPT !.level = res.level, !.confidence = res.confidence,
                               !.scores = res.scores]
       IN  req' = [req EXCEPT ![p] =
             IF method # "POST" THEN respond(r, 405, "Method not allowed")
             ELSE IF ~hasAnswers THEN respond(r, 400, "answers required")
             ELSE IF hasWritingEntry(answers)
                  THEN [r EXCEPT !.pc = "awaitModel", !.hasUid = hasUid,
                                 !.mcqPercent = mcqPercent, !.ev = {"model"}]
             ELSE IF hasUid THEN [graded EXCEPT !.pc = "awaitGet"]
             ELSE respondResult(graded)]
  /\ UNCHANGED <<user, history, today, probe>>

(* ------------------------------ speaking ------------------------------- *)

\* uploadToAssembly (lines 39-48) resolves: readFileSync or fetch throws, or
\* the body is not JSON ("throw"); otherwise j.upload_url is returned, which
\* is undefined when the provider answered with an HTTP error ("httpFail"):
\* r.ok is not looked at.  createTranscription is issued next.
UploadResolve(p) ==
  /\ req[p].pc = "awaitUpload"
  /\ \E outcome \in {"ok", "httpFail", "throw"} :
       req' = [req EXCEPT ![p] =
         IF outcome = "throw" THEN respond(@, 500, "rejected")
         ELSE [@ EXCEPT !.pc = "awaitCreate",
                        !.upload = IF outcome = "ok" THEN "url" ELSE "undefined",
                        !.ev = @ \cup {"create"}]]
  /\ UNCHANGED <<user, history, today, probe>>

\* createTranscription (lines 50-58) resolves in the same ways, to j.id;
\* the first poll is issued next
CreateResolve(p) ==
  /\ req[p].pc = "awaitCreate"
  /\ \E outcome \in {"ok", "httpFail", "throw"} :
       req' = [req EXCEPT ![p] =
         IF outcome = "throw" THEN respond(@, 500, "rejected")
         ELSE [@ EXCEPT !.pc = "awaitPoll", !.upload = "none",
                        !.job = IF outcome = "ok" THEN "id" ELSE "undefined",
                        !.ev = @ \cup {"poll"}]]
  /\ UNCHANGED <<user, history, today, probe>>

\* the statuses a poll may observe; "missing" is a body without a status
PollStatuses == {"queued", "processing", "completed", "error", "other", "missing"}

\* pollStep throwing on every status that is not a known one
pollStep_unknownThrows(status) ==
  IF status = "completed" THEN "return"
  ELSE IF status \notin {"queued", "processing"} THEN "throw"
  ELSE "again"

\* pollStep returning as soon as the job is being processed
pollStep_returnsEarly(status) ==
  IF status \in {"completed", "processing"} THEN "return"
  ELSE IF status = "error" THEN "throw"
  ELSE "again"

\* what one iteration of pollTranscript (lines 61-69) does with the status
\* it observed: return the text, throw, or go round the loop again
pollStep(status) ==
  IF status = "completed" THEN "return"
  ELSE IF status = "error" THEN "throw"
  ELSE "again"

\* "Transcription error: " + (j.error || "unknown")
transcriptionError(hasDetail) ==
  IF hasDetail THEN "Transcription error: detail" ELSE "Transcription error: unknown"

\* PollResolve giving up after one poll that is not terminal
PollResolve_singleAttempt(p) ==
  /\ req[p].pc = "awaitPoll"
  /\ \E status \in PollStatuses \cup {"throw"}, hasDetail \in BOOLEAN :
       req' = [req EXCEPT ![p] =
         IF status = "throw" THEN respond(@, 500, "rejected")
         ELSE IF pollStep(status) = "return"
              THEN [@ EXCEPT !.pc = "awaitModel", !.status = status, !.job = "none",
                             !.ev = @ \cup {"model"}
                                    \cup (IF status = "completed" THEN {"completed"} ELSE {})]
         ELSE IF pollStep(status) = "throw"
              THEN [respond(@, 500, transcriptionError(hasDetail)) EXCEPT !.status = status]
         ELSE [respond(@, 500, "Transcription timeout") EXCEPT !.status = status]]
  /\ UNCHANGED <<user, history, today, probe>>

\* one poll resolves (after the 3 s timer and the fetch; "throw": the fetch
\* rejects or the body is not JSON); on "completed" the handler builds the
\* prompt and invokes the model (line 118)
PollResolve(p) ==
  /\ req[p].pc = "awaitPoll"
  /\ \E status \in PollStatuses \cup {"throw"}, hasDetail \in BOOLEAN :
       req' = [req EXCEPT ![p] =
         IF status = "throw" THEN respond(@, 500, "rejected")
         ELSE IF pollStep(status) = "return"
              THEN [@ EXCEPT !.pc = "awaitModel", !.status = status, !.job = "none",
                             !.ev = @ \cup {"model"}
                                    \cup (IF status = "completed" THEN {"completed"} ELSE {})]
         ELSE IF pollStep(status) = "throw"
              THEN [respond(@, 500, transcriptionError(hasDetail)) EXCEPT !.status = status]
         ELSE [@ EXCEPT !.status = status]]
  /\ UNCHANGED <<user, history, today, probe>>

(* ----------------------------- model call ------------------------------ *)

\* how the fetch to the model may end: the fetch rejects; a non-2xx answer
\* (whose body can or cannot be read); a 2xx answer whose body is not
\* JSON; a 2xx answer with a JSON envelope
ModelOutcomes == {"reject", "notOk", "notOkUnreadable", "badJson", "ok"}

\* parsed.level || "Unknown"
levelOr(v) == IF v.level = "none" THEN "Unknown" ELSE v.level

\* parsed.confidence ?? 0
confidenceOr(v) == IF v.confidence = Undefined THEN 0 ELSE v.confidence

\* writing, lines 58-81: the fetch resolves, the reply is normalized, the
\* get is issued
WritingModel(p) ==
  /\ req[p].pc = "awaitModel" /\ req[p].kind = "writing"
  /\ \E outcome \in ModelOutcomes, content \in ModelTexts :
       LET n == normalizeLoose(content)
       IN  req' = [req EXCEPT ![p] =
             IF outcome = "notOk" THEN respond(@, 502, "Gemini error")
             ELSE IF outcome = "notOkUnreadable" THEN respond(@, 500, "rejected")
             ELSE IF outcome \in {"reject", "badJson"} THEN respond(@, 500, "rejected")
             ELSE IF n.throws THEN respond(@, 500, "SyntaxError")
             ELSE [@ EXCEPT !.pc = "awaitGet", !.parsed = n.value.kind,
                            !.level = levelOr(n.value),
                            !.confidence = confidenceOr(n.value),
                            !.scores = n.value.scores,
                            !.ev = @ \cup {"modelDone"}]]
  /\ UNCHANGED <<user, history, today, probe>>

\* speaking, lines 72-122: callGemini resolves; doc(uid) throws when the
\* form carried no uid; otherwise the get is issued
SpeakingModel(p) ==
  /\ req[p].pc = "awaitModel" /\ req[p].kind = "speaking"
  /\ \E outcome \in ModelOutcomes, content \in ModelTexts :
       LET n == normalizeLoose(content)
       IN  req' = [req EXCEPT ![p] =
             IF outcome \in {"notOk", "notOkUnreadable"} THEN respond(@, 500, "Gemini error")
             ELSE IF outcome \in {"reject", "badJson"} THEN respond(@, 500, "rejected")
             ELSE IF n.throws THEN respond(@, 500, "SyntaxError")
             ELSE IF ~req[p].hasUid THEN respond(@, 500, "documentPath")
             ELSE [@ EXCEPT !.pc = "awaitGet", !.parsed = n.value.kind,
                            !.hasUid = FALSE, !.status = "none",
                            !.level = levelOr(n.value),
                            !.confidence = confidenceOr(n.value),
                            !.scores = n.value.scores,
                            !.ev = @ \cup {"modelDone"}]]
  /\ UNCHANGED <<user, history, today, probe>>

\* placement, lines 39-146: callGeminiEvaluate resolves; whatever it throws
\* is caught and logged, and leaves geminiParsed null ("noKey": no fetch is
\* made without GEMINI_KEY)
PlacementModel(p) ==
  /\ req[p].pc = "awaitModel" /\ req[p].kind = "placement"
  /\ \E outcome \in ModelOutcomes \cup {"noKey"}, content \in ModelTexts :
       LET n == normalizeStrict(content)
           failed == outcome # "ok" \/ n.throws
           geminiParsed == IF failed THEN jsonValue(<<"null">>) ELSE n.value
           res == placementResult(req[p].mcqPercent, geminiParsed)
           evaluated == [req[p] EXCEPT !.mcqPercent = Undefined,
                                       !.parsed = IF failed THEN "failed" ELSE n.value.kind,
                                       !.level = res.level, !.confidence = res.confidence,
                                       !.scores = res.scores]
       IN  req' = [req EXCEPT ![p] =
             IF req[p].hasUid
             THEN [evaluated EXCEPT !.pc = "awaitGet", !.hasUid = FALSE,
                                    !.ev = @ \cup {"modelDone"}]
             ELSE respondResult(evaluated)]
  /\ UNCHANGED <<user, history, today, probe>>

(* ---------------------------- persistence ------------------------------ *)

\* userRef.get() is served by the store (or rejects)
GetServe(p) ==
  /\ req[p].pc = "awaitGet"
  /\ \E ok \in BOOLEAN :
       req' = [req EXCEPT ![p] =
         IF ok THEN [@ EXCEPT !.pc = "gotSnap",
                              !.snap = [date |-> user.date, streak |-> user.streak,
                                        avatars |-> user.avatars],
                              !.ev = @ \cup {"read"}]
         ELSE respond(@, 500, "rejected")]
  /\ UNCHANGED <<user, history, today, probe>>

\* writing, lines 82-93: the continuation of the get computes the streak
\* from the clock and issues the set; parsed.level throws on a null result
WritingCompute(p) ==
  /\ req[p].pc = "gotSnap" /\ req[p].kind = "writing"
  /\ LET s == computeNewStreak(req[p].snap.date, req[p].snap.streak, today)
     IN  req' = [req EXCEPT ![p] =
           IF req[p].parsed = "null" THEN respond(@, 500, "TypeError")
           ELSE [@ EXCEPT !.pc = "awaitSet",
                          !.out = [streak |-> s.streak, todayISO |-> s.todayISO,
                                   avatars |-> <<>>]]]
  /\ UNCHANGED <<user, history, today, probe>>

\* speaking, lines 123-146
SpeakingCompute(p) ==
  /\ req[p].pc = "gotSnap" /\ req[p].kind = "speaking"
  /\ LET s == speakingNewStreak(req[p].snap.date, req[p].snap.streak, today)
     IN  req' = [req EXCEPT ![p] =
           IF req[p].parsed = "null" THEN respond(@, 500, "TypeError")
           ELSE [@ EXCEPT !.pc = "awaitSet",
                          !.out = [streak |-> s.streak, todayISO |-> s.todayISO,
                                   avatars |-> <<>>]]]
  /\ UNCHANGED <<user, history, today, probe>>

\* placement, lines 149-178
PlacementCompute(p) ==
  /\ req[p].pc = "gotSnap" /\ req[p].kind = "placement"
  /\ LET s == placementStreak(req[p].snap.date, req[p].snap.streak, today)
     IN  req' = [req EXCEPT ![p] =
           IF s.throws THEN respond(@, 500, "RangeError")
           ELSE [@ EXCEPT !.pc = "awaitSet",
                          !.out = [streak |-> s.streak, todayISO |-> s.todayISO,
                                   avatars |-> badgesFor(req[p].snap.avatars, s.streak)]]]
  /\ UNCHANGED <<user, history, today, probe>>

\* the document the set leaves, by endpoint
written(u, r) == IF r.kind = "placement" THEN setProgressAvatars(u, r) ELSE setProgress(u, r)

\* userRef.set(..., {merge: true}) is applied by the store (or rejects);
\* the history append is issued next
SetServe(p) ==
  /\ req[p].pc = "awaitSet"
  /\ \E ok \in BOOLEAN :
       IF ok
       THEN /\ user' = written(user, req[p])
            /\ req' = [req EXCEPT ![p] = [@ EXCEPT !.pc = "awaitAdd", !.ev = @ \cup {"write"}]]
       ELSE /\ user' = user
            /\ req' = [req EXCEPT ![p] = respond(@, 500, "rejected")]
  /\ UNCHANGED <<history, today, probe>>

\* AddServe writing the entry under one fixed id per type
AddServe_fixedId(p) ==
  /\ req[p].pc = "awaitAdd"
  /\ \E ok \in BOOLEAN :
       IF ok
       THEN /\ history' = [history EXCEPT ![req[p].kind] = 1]
            /\ req' = [req EXCEPT ![p] = respondResult([@ EXCEPT !.ev = @ \cup {"append"}])]
       ELSE /\ history' = history
            /\ req' = [req EXCEPT ![p] = respond(@, 500, "rejected")]
  /\ UNCHANGED <<user, today, probe>>

\* collection("assessments").add(...) (placement: doc().set(...)) is applied
\* by the store (or rejects); the handler then answers 200
AddServe(p) ==
  /\ req[p].pc = "awaitAdd"
  /\ \E ok \in BOOLEAN :
       IF ok
       THEN /\ history' = [history EXCEPT ![req[p].kind] = @ + 1]
            /\ req' = [req EXCEPT ![p] = respondResult([@ EXCEPT !.ev = @ \cup {"append"}])]
       ELSE /\ history' = history
            /\ req' = [req EXCEPT ![p] = respond(@, 500, "rejected")]
  /\ UNCHANGED <<user, today, probe>>

(* ------------------------------- clock --------------------------------- *)

\* midnight UTC passes
AdvanceDay ==
  /\ today < MaxDay
  /\ today' = today + 1
  /\ UNCHANGED <<user, history, req, probe>>

(* --------------------------- specifications ---------------------------- *)

Next ==
  \/ \E p \in Reqs :
       \/ WritingReceive(p) \/ SpeakingReceive(p) \/ PlacementReceive(p)
       \/ UploadResolve(p) \/ CreateResolve(p) \/ PollResolve(p)
       \/ WritingModel(p) \/ SpeakingModel(p) \/ PlacementModel(p)
       \/ GetServe(p)
       \/ WritingCompute(p) \/ SpeakingCompute(p) \/ PlacementCompute(p)
       \/ SetServe(p) \/ AddServe(p)
  \/ AdvanceDay

NoHistory == [k \in Kinds |-> 0]

\* a document as an earlier assessment, or another writer of the users
\* collection, may have left it
stored(date, progress) ==
  [exists |-> TRUE, level |-> "A1", confidence |-> 10,
   date |-> date, streak |-> progress[1], avatars |-> progress[2]]

StoredUsers ==
  {NoUser}
  \cup {stored(ISO(d), <<2, <<>>>>) : d \in 0..MaxDay}
  \cup {stored(ISO(1), <<Undefined, <<>>>>), stored(ISO(1), <<0, <<>>>>),
        stored(ISO(0), <<Undefined, <<>>>>), stored(ISO(0), <<6, <<"starter">>>>),
        stored(NoDate, <<2, <<>>>>), stored(BadDate, <<2, <<>>>>), stored(Stamp(1), <<2, <<>>>>)}

\* the user's document is whatever the store holds; the clock shows day 1
Init ==
  /\ user \in StoredUsers
  /\ history = NoHistory
  /\ today = 1
  /\ req = [p \in Reqs |-> IdleReq]
  /\ probe = NoCall

Spec == Init /\ [][Next]_vars

(* ------------------- the pipeline on its own records ------------------- *)

\* no record, or a record as the three handlers leave it: a canonical date
\* of today, of yesterday or of the day before, a streak of at least 1
PipelineUsers ==
  {NoUser} \cup {stored(ISO(d), <<s, badgesFor(<<>>, s)>>) : d \in (-1)..1, s \in 1..MaxStreak}

InitPipeline ==
  /\ user \in PipelineUsers
  /\ history = NoHistory
  /\ today = 1
  /\ req = [p \in Reqs |-> IdleReq]
  /\ probe = NoCall

SpecPipeline == InitPipeline /\ [][Next]_vars

(* --------------------- speaking requests, scheduled -------------------- *)

NextSpeaking ==
  \E p \in Reqs :
    \/ SpeakingReceive(p)
    \/ UploadResolve(p) \/ CreateResolve(p) \/ PollResolve(p)
    \/ SpeakingModel(p)
    \/ GetServe(p) \/ SpeakingCompute(p) \/ SetServe(p) \/ AddServe(p)

InitSpeaking ==
  /\ user = NoUser
  /\ history = NoHistory
  /\ today = 1
  /\ req = [p \in Reqs |-> IdleReq]
  /\ probe = NoCall

\* every call that was issued returns, and every timer fires: the awaited
\* step of a request is eventually taken
EveryCallReturns ==
  \A p \in Reqs :
    /\ WF_vars(UploadResolve(p)) /\ WF_vars(CreateResolve(p)) /\ WF_vars(PollResolve(p))
    /\ WF_vars(SpeakingModel(p))
    /\ WF_vars(GetServe(p)) /\ WF_vars(SpeakingCompute(p))
    /\ WF_vars(SetServe(p)) /\ WF_vars(AddServe(p))

SpecSpeaking == InitSpeaking /\ [][NextSpeaking]_vars /\ EveryCallReturns

(* ----------------------- the helpers on their own ---------------------- *)

\* the sequences over S of length up to n
SeqsUpTo(S, n) == UNION {[1..k -> S] : k \in 0..n}

\* questions and answers gradeMCQs is given
QuestionKinds ==
  { [type |-> "mcq", answer |-> "a"], [type |-> "mcq", answer |-> "b"],
    [type |-> "writing", answer |-> "null"] }
AnswerKinds ==
  { [type |-> "mcq", selected |-> sel, sampleLen |-> 0] : sel \in {"a", "b", "undefined"} }

NoGrading == [correct |-> Undefined, total |-> Undefined]

InitGrade ==
  /\ user = NoUser
  /\ history = NoHistory
  /\ today = 1
  /\ req = [p \in Reqs |-> IdleReq]
  /\ probe \in { [fn |-> "gradeMCQs", questions |-> q, answers |-> a, called |-> FALSE,
                   grading |-> NoGrading, mcqPercent |-> Undefined] :
                   q \in SeqsUpTo(QuestionKinds, MaxQuestions),
                   a \in SeqsUpTo(AnswerKinds, MaxAnswers) }

\* grading = gradeMCQs(questions, answersByIndex), then mcqPercent
CallGradeMCQs ==
  /\ probe.fn = "gradeMCQs" /\ ~probe.called
  /\ probe' = [probe EXCEPT !.called = TRUE,
                            !.grading = gradeMCQs(probe.questions, probe.answers),
                            !.mcqPercent =
                               mcqPercentOf(gradeMCQs(probe.questions, probe.answers))]
  /\ UNCHANGED <<user, history, today, req>>

SpecGrade == InitGrade /\ [][CallGradeMCQs]_vars

\* the sub-scores mapScoresToLevel is given
ScoreSamples == {0, 2, 20, 35, 55, 75, 90, 96, MaxScore}

InitLevels ==
  /\ user = NoUser
  /\ history = NoHistory
  /\ today = 1
  /\ req = [p \in Reqs |-> IdleReq]
  /\ probe \in { [fn |-> "mapScoresToLevel",
                   scores |-> [vocab |-> v, grammar |-> g, cohesion |-> c],
                   called |-> FALSE, level |-> "none"] :
                   v \in ScoreSamples, g \in ScoreSamples, c \in ScoreSamples }

\* mapping = mapScoresToLevel(scores)
CallMapScoresToLevel ==
  /\ probe.fn = "mapScoresToLevel" /\ ~probe.called
  /\ probe' = [probe EXCEPT !.called = TRUE, !.level = mapScoresToLevel(probe.scores)]
  /\ UNCHANGED <<user, history, today, req>>

SpecLevels == InitLevels /\ [][CallMapScoresToLevel]_vars

(* ------------------------------- claims -------------------------------- *)

\* the step in which the continuation of p's get computes the streak
Computes(p) == req[p].pc = "gotSnap" /\ req'[p].pc = "awaitSet"

\* the step in which the store applies p's set
Writes(p) == req[p].pc = "awaitSet" /\ req'[p].pc = "awaitAdd"

\* the set writes the streak and the date the request computed
WritesComputed(p) ==
  Writes(p) => user'.streak = req[p].out.streak /\ user'.date = req[p].out.todayISO

\* a stored date Date can parse
Parses(d) == d.kind \in {"date", "stamp"}

\* C1: when the lastAssessmentDateISO a request read equals today, the
\* streak it computes for its set is the streak it read, or 1 when that
\* streak is 0 or absent: never 0.
C1_SameDayKeepsStreak ==
  \A p \in Reqs :
    (req[p].pc = "awaitSet" /\ req[p].snap.date = req[p].out.todayISO)
      => req[p].out.streak = OrElse(req[p].snap.streak, 1)

\* C2: when the date a request read is exactly one calendar day before the
\* day the clock shows, the streak it computes is the streak it read (0 if
\* absent) plus 1 and the date is today's, and its set writes both.
C2_NextDayAddsOne ==
  [][\A p \in Reqs :
       /\ (Computes(p) /\ Parses(req[p].snap.date) /\ today - req[p].snap.date.day = 1)
            => /\ req'[p].out.streak = numOr0(req[p].snap.streak) + 1
               /\ req'[p].out.todayISO = ISO(today)
       /\ WritesComputed(p)]_vars

C2_Witness ==
  \E p \in Reqs :
    /\ req[p].pc = "awaitAdd"
    /\ req[p].snap.date.kind = "date"
    /\ req[p].out.todayISO.day - req[p].snap.date.day = 1
    /\ req[p].snap.streak >= 1
    /\ req[p].out.streak = req[p].snap.streak + 1
    /\ user.streak = req[p].out.streak

\* C3: when the date a request read is two or more calendar days before
\* the day the clock shows, or later than it, the streak it computes is 1
\* whatever the streak it read, and its set writes it.
C3_GapResets ==
  [][\A p \in Reqs :
       /\ (/\ Computes(p)
           /\ Parses(req[p].snap.date)
           /\ (today - req[p].snap.date.day >= 2 \/ req[p].snap.date.day > today))
            => /\ req'[p].out.streak = 1
               /\ req'[p].out.todayISO = ISO(today)
       /\ WritesComputed(p)]_vars

C3_Witness ==
  \E p \in Reqs :
    /\ req[p].pc = "awaitAdd"
    /\ req[p].snap.date.kind = "date"
    /\ req[p].out.todayISO.day - req[p].snap.date.day >= 2
    /\ req[p].snap.streak >= 2
    /\ req[p].out.streak = 1
    /\ user.streak = 1

Badges == {"starter", "bronze", "silver", "gold"}

\* C4: the stored record holds every badge its streak has earned.
C4_BadgesMatchStreak ==
  /\ user.streak >= StarterAt => includes(user.avatars, "starter")
  /\ user.streak >= BronzeAt => includes(user.avatars, "bronze")
  /\ user.streak >= SilverAt => includes(user.avatars, "silver")
  /\ user.streak >= GoldAt => includes(user.avatars, "gold")

\* C5: no step removes a badge from the stored avatars.
C5_BadgesNeverRemoved ==
  [][\A b \in Badges : includes(user.avatars, b) => includes(user'.avatars, b)]_vars

\* C6: there is no mutual exclusion on the record: whatever was written
\* to it since the request read it, the set a request applies leaves the
\* level, confidence, streak and date of that request alone.
C6_LastWriteWins ==
  [][\A p \in Reqs :
       Writes(p)
         => /\ user'.level = req[p].level
            /\ user'.confidence = req[p].confidence
            /\ user'.streak = req[p].out.streak
            /\ user'.date = req[p].out.todayISO]_vars

\* two requests read the same snapshot, both wrote, and the record holds
\* the level and confidence of the second alone
C6_Witness ==
  \E p, q \in Reqs :
    /\ p # q
    /\ req[p].pc = "awaitAdd" /\ req[q].pc = "awaitAdd"
    /\ req[p].snap = req[q].snap
    /\ req[p].snap.date # user.date
    /\ req[p].level # req[q].level /\ req[p].confidence # req[q].confidence
    /\ user.level = req[q].level /\ user.confidence = req[q].confidence

TranscriptionErrors == {transcriptionError(TRUE), transcriptionError(FALSE)}

\* C7: a poll returns the text exactly when it observed "completed", fails
\* with the transcription error exactly when it observed "error", and on
\* any other observed status the request goes on polling, unanswered.
C7_PollLoop ==
  [][\A p \in Reqs :
       (req[p].pc = "awaitPoll" /\ req'[p] # req[p])
         => /\ req'[p].pc = "awaitModel" <=> req'[p].status = "completed"
            /\ (req'[p].pc = "done" /\ req'[p].err \in TranscriptionErrors)
                 <=> req'[p].status = "error"
            /\ req'[p].status \in PollStatuses \ {"completed", "error"}
                 => req'[p].pc = "awaitPoll" /\ req'[p].resp = 0]_vars

C7_Witness ==
  \E p, q \in Reqs :
    /\ req[p].pc = "awaitModel" /\ req[p].status = "completed"
    /\ req[q].pc = "done" /\ req[q].status = "error" /\ req[q].resp = 500
    /\ req[q].err = transcriptionError(TRUE)

\* C8: the steps of a speaking request are ordered: upload, job creation,
\* polls, a poll that returned completed, the model call, its return, the
\* read, the write, and the history append last.
C8_SpeakingOrder ==
  [][\A p \in Reqs :
       req'[p].kind = "speaking" =>
         /\ "create" \in req'[p].ev => "upload" \in req[p].ev
         /\ "poll" \in req'[p].ev => "create" \in req[p].ev
         /\ "model" \in req'[p].ev => "poll" \in req[p].ev /\ "completed" \in req'[p].ev
         /\ "read" \in req'[p].ev => "modelDone" \in req[p].ev
         /\ "write" \in req'[p].ev => "read" \in req[p].ev
         /\ history'["speaking"] # history["speaking"]
              => \E q \in Reqs : req[q].kind = "speaking" /\ "write" \in req[q].ev
                                 /\ req[q].pc = "awaitAdd"]_vars

C8_Witness ==
  \E p \in Reqs :
    /\ req[p].kind = "speaking" /\ req[p].resp = 200
    /\ history["speaking"] = 1

\* C9: a request whose upload or job creation failed over HTTP, whose model
\* call failed over HTTP or whose job reached status error has ended with
\* a 500 or 502, and has written nothing.
C9_ProviderFailureAborts ==
  \A p \in Reqs :
    (\/ req[p].upload = "undefined"
     \/ req[p].job = "undefined"
     \/ req[p].err = "Gemini error"
     \/ req[p].status = "error")
      => /\ req[p].pc = "done" /\ req[p].resp \in {500, 502}
         /\ "write" \notin req[p].ev

\* C10: a writing or speaking request whose model output could not be
\* normalized is not answered 500: it goes on with level "Unknown" and
\* confidence 0.
C10_UnparsableDegrades ==
  \A p \in Reqs :
    req[p].kind \in {"writing", "speaking"} =>
      /\ req[p].err # "SyntaxError"
      /\ req[p].parsed = "raw" => req[p].level = "Unknown" /\ req[p].confidence = 0

\* the three sub-scores all equal to m
allScores(m) == [vocab |-> m, grammar |-> m, cohesion |-> m]

\* C11: the step in which the model call of a placement request resolves
\* never answers with a failure, and when the call failed in any way the
\* result's three sub-scores are the multiple-choice percentage and its
\* confidence is that percentage (of 100).
C11_PlacementFallsBack ==
  [][\A p \in Reqs :
       (req[p].kind = "placement" /\ req[p].pc = "awaitModel" /\ req'[p] # req[p])
         => /\ req'[p].resp \in {0, 200}
            /\ req'[p].pc \in {"awaitGet", "done"}
            /\ req'[p].parsed = "failed"
                 => /\ req'[p].scores = allScores(req[p].mcqPercent)
                    /\ req'[p].confidence = req[p].mcqPercent]_vars

\* a placement request whose model call failed was answered 200, with the
\* fallback result, after its write and its history entry
C11_Witness ==
  \E p \in Reqs :
    /\ req[p].kind = "placement" /\ req[p].resp = 200 /\ req[p].parsed = "failed"
    /\ req[p].scores = allScores(100) /\ req[p].confidence = 100
    /\ "append" \in req[p].ev /\ history["placement"] >= 1

\* C12: a request whose method is not POST is answered 405 on receipt and
\* a POST request missing a required field 400; a 405 or 400 is only ever
\* given on receipt, before any call is issued, and its step leaves the
\* record and the history as they were.
C12_RejectsOnReceipt ==
  [][\A p \in Reqs :
       /\ (req[p].pc = "idle" /\ req'[p].pc # "idle")
            => /\ req'[p].method # "POST" <=> req'[p].resp = 405
               /\ req'[p].fields = "missing" <=> req'[p].resp = 400
               /\ req'[p].resp \in {400, 405} => req'[p].pc = "done"
       /\ (req'[p].resp \in {400, 405} /\ req[p].resp = 0)
            => /\ req[p].pc = "idle"
               /\ req'[p].ev = {}
               /\ user' = user /\ history' = history]_vars

C12_Witness ==
  \E p, q \in Reqs :
    /\ req[p].kind = "speaking" /\ req[p].resp = 405 /\ req[p].method = "GET"
    /\ req[q].kind = "writing" /\ req[q].resp = 400 /\ req[q].fields = "missing"
    /\ history = NoHistory

\* C13: the level a set writes to the record is the level mapScoresToLevel
\* gives for the sub-scores of the request's result.
C13_LevelIsMapped ==
  [][\A p \in Reqs : Writes(p) => user'.level = mapScoresToLevel(req[p].scores)]_vars

\* the step in which p's history entry is added and p is answered 200
Appends(p) == req[p].pc = "awaitAdd" /\ req'[p].resp = 200

\* the requests of type k whose append has completed
appended(k) == {p \in Reqs : req[p].kind = k /\ "append" \in req[p].ev}

\* C14: a request writes the record at most once; a request with a uid is
\* answered 200 only by the step that adds its one history entry, of its
\* own type, after its write; no step takes entries away; and the entries
\* of each type are as many as the requests whose append completed.
C14_OneEntryPerSuccess ==
  /\ [](\A k \in Kinds : history[k] = Cardinality(appended(k)))
  /\ [][/\ \A k \in Kinds : history'[k] >= history[k]
        /\ history' # history => \E p \in Reqs : Appends(p)
        /\ \A p \in Reqs :
             /\ Writes(p) => "write" \notin req[p].ev
             /\ Appends(p)
                  => /\ "write" \in req[p].ev /\ "append" \notin req[p].ev
                     /\ history' = [history EXCEPT ![req[p].kind] = @ + 1]
             /\ (req'[p].resp = 200 /\ req[p].resp = 0 /\ ~Appends(p))
                  => /\ req[p].kind \in {"none", "placement"}
                     /\ req[p].pc \in {"idle", "awaitModel"}
                     /\ req[p].pc = "awaitModel" => ~req[p].hasUid
                     /\ user' = user /\ history' = history]_vars

C14_Witness ==
  \E p, q \in Reqs :
    /\ p # q
    /\ req[p].kind = "writing" /\ req[p].resp = 200
    /\ req[q].kind = "writing" /\ req[q].resp = 200
    /\ history["writing"] = 2

\* how many times b is in the list
countOf(list, b) == Cardinality({i \in 1..Len(list) : list[i] = b})

\* C17: the stored avatars hold each badge at most once, and the avatars a
\* placement request computed are left as they are by evaluating the
\* thresholds on them again with the same streak.
C17_BadgesIdempotent ==
  /\ \A b \in Badges : countOf(user.avatars, b) <= 1
  /\ \A p \in Reqs :
       (req[p].kind = "placement" /\ req[p].pc \in {"awaitSet", "awaitAdd"})
         => badgesFor(req[p].out.avatars, req[p].out.streak) = req[p].out.avatars

\* a placement request that read a record already holding the badges of
\* its streak has written them back, once each
C17_Witness ==
  \E p \in Reqs :
    /\ req[p].kind = "placement" /\ req[p].pc = "awaitAdd"
    /\ req[p].snap.avatars = <<"starter", "bronze">>
    /\ req[p].out.streak >= BronzeAt
    /\ req[p].out.avatars = req[p].snap.avatars
    /\ user.avatars = req[p].out.avatars

\* the multiple-choice questions among the first n, and the ones among
\* them answered with the selection that is the question's answer
RECURSIVE mcqsUpTo(_, _)
mcqsUpTo(qs, n) ==
  IF n = 0 THEN 0
  ELSE mcqsUpTo(qs, n - 1) + (IF qs[n].type = "mcq" THEN 1 ELSE 0)

RECURSIVE correctUpTo(_, _, _)
correctUpTo(qs, as, n) ==
  IF n = 0 THEN 0
  ELSE correctUpTo(qs, as, n - 1)
       + (IF /\ qs[n].type = "mcq"
             /\ n <= Len(as)
             /\ as[n].selected # "undefined"
             /\ as[n].selected = qs[n].answer
          THEN 1 ELSE 0)

\* C15: grading counts as correct the multiple-choice questions whose
\* answer at the same position has the question's answer selected (none
\* or an undefined selection is incorrect), the total is the number of
\* multiple-choice questions whatever the answers, and the percent is
\* correct / max(total, 1) * 100 rounded to the nearest integer, halves up.
C15_GradingRule ==
  (probe.fn = "gradeMCQs" /\ probe.called) =>
    LET total == mcqsUpTo(probe.questions, Len(probe.questions))
        correct == correctUpTo(probe.questions, probe.answers, Len(probe.questions))
        d == max1(total)
    IN  /\ probe.grading.total = total
        /\ probe.grading.correct = correct
        /\ 2 * d * probe.mcqPercent <= 200 * correct + d
        /\ 200 * correct + d < 2 * d * (probe.mcqPercent + 1)

\* two multiple-choice questions, one answer, and it is right: 1 of 2
C15_Witness ==
  /\ probe.fn = "gradeMCQs" /\ probe.called
  /\ Len(probe.questions) = 2 /\ Len(probe.answers) = 1
  /\ probe.grading = [correct |-> 1, total |-> 2]
  /\ probe.mcqPercent = 50

LevelOrder == <<"A1", "A2", "B1", "B2", "C1", "C2">>
rankOf(level) == CHOOSE i \in 1..Len(LevelOrder) : LevelOrder[i] = level

\* C16: mapScoresToLevel returns one of the six levels, and with any one
\* sub-score raised (up to 100) and the other two as they are it returns
\* no lower level.
C16_TotalAndMonotonic ==
  (probe.fn = "mapScoresToLevel" /\ probe.called) =>
    /\ \E i \in 1..Len(LevelOrder) : LevelOrder[i] = probe.level
    /\ \A k \in {"vocab", "grammar", "cohesion"} :
         \A x \in probe.scores[k]..MaxScore :
           rankOf(probe.level)
             <= rankOf(mapScoresToLevel([probe.scores EXCEPT ![k] = x]))

\* a triple whose overall is 20 in decimals and above 20 in doubles
C16_Witness ==
  /\ probe.fn = "mapScoresToLevel" /\ probe.called
  /\ probe.scores = [vocab |-> 0, grammar |-> 2, cohesion |-> 96]
  /\ overall10(probe.scores) = 200
  /\ probe.level = "A2"

\* the streak one request on the clock's day stores for the record u
singleRequestStreak(u) ==
  IF ~u.exists THEN 1
  ELSE IF u.date = ISO(today) THEN u.streak
  ELSE IF u.date = ISO(today - 1) THEN u.streak + 1
  ELSE 1

\* C18: from no record or a record of the pipeline, while the day has not
\* changed since the first request, every set leaves the streak a single
\* request of that day stores: the record's streak if the record is
\* already dated today, and else the streak one request gives for it.
C18_SameDayOneRise ==
  [][today = 1 =>
       \A p \in Reqs : Writes(p) => user'.streak = singleRequestStreak(user)]_vars

\* two requests of different types read yesterday's record, and both wrote
C18_Witness ==
  \E p, q \in Reqs :
    /\ today = 1
    /\ req[p].kind # req[q].kind
    /\ req[p].pc = "awaitAdd" /\ req[q].pc = "awaitAdd"
    /\ req[p].snap.date = ISO(0) /\ req[q].snap.date = ISO(0)
    /\ req[p].snap.streak = MaxStreak
    /\ user.streak = MaxStreak + 1 /\ user.date = ISO(today)

\* C19: from no record or a record of the pipeline, every stored record
\* has a streak of at least 1 and a canonical date that is not later than
\* the day the clock shows.
C19_StreakAndDateSane ==
  user.exists => /\ user.streak >= 1
                 /\ user.date.kind = "date"
                 /\ user.date.day <= today

\* a request that read no record wrote streak 1 with the date of the day
\* it computed on, and the clock has moved on since
C19_Witness ==
  \E p \in Reqs :
    /\ req[p].pc = "awaitAdd" /\ req[p].snap.date = NoDate
    /\ user.streak = 1 /\ user.date = req[p].out.todayISO
    /\ user.date.day < today

\* C20: a poll that observed neither completed nor error (and whose call
\* returned) leaves the request polling, as it was but for the status
\* observed, unanswered, and the record and the history as they were,
\* whatever the number of polls before it; and a speaking request whose
\* poll observed completed or error is eventually answered.
C20_PollsUntilTerminal ==
  /\ [][\A p \in Reqs :
          (/\ req[p].pc = "awaitPoll" /\ req'[p] # req[p]
           /\ req'[p].status \notin {"completed", "error"}
           /\ req'[p].err # "rejected")
            => /\ req'[p] = [req[p] EXCEPT !.status = req'[p].status]
               /\ req'[p].pc = "awaitPoll" /\ req'[p].resp = 0
               /\ user' = user /\ history' = history]_vars
  /\ \A p \in Reqs :
       (req[p].kind = "speaking" /\ req[p].status \in {"completed", "error"})
         ~> (req[p].resp # 0)

\* one request is still polling after a poll that observed processing,
\* the other was answered after its poll observed completed
C20_Witness ==
  \E p, q \in Reqs :
    /\ req[p].pc = "awaitPoll" /\ req[p].status = "processing" /\ req[p].resp = 0
    /\ req[q].kind = "speaking" /\ req[q].resp = 200 /\ "completed" \in req[q].ev

====
